---- MODULE Spec2Model ----
(***************************************************************************)
(* The offline event queue of the BabyPod firmware (offline_event_queue.py) *)
(* with the request classes it serialises (api.py) and the connection mode  *)
(* transitions that drive it (flow.py).                                     *)
(*                                                                          *)
(* A Python value that may be None is a sequence of length 0 or 1; a call   *)
(* that may raise returns <<>> when it raises and <<value>> when it returns.*)
(* A dict is a function from its keys (strings) to its values.              *)
(***************************************************************************)
EXTENDS Integers, Sequences, FiniteSets, TLC

VARIABLES
    files,      \* the queue directory: file name -> file body (<<>> = unparseable, <<item>> = JSON item)
    addOrder,   \* history: the file names add() produced, in the order of the calls
    adds,       \* history: number of add() calls made
    clock,      \* the reading rtc.now() gives
    pc,         \* "off" (not started) | "idle" | "replay" (inside replay_all's loop) |
                \* "online" (inside back_online's loop)
    drain,      \* the locals of the running / last replay_all call (cleared by the next operation)
    ncalls,     \* the number of invoke() calls the remote transport saw in the running / last drain
    last,       \* what the last processed queue entry did
    nvOffline,  \* NVRAMValues.OFFLINE
    connected,  \* ConnectionManager holds a live session
    bo,         \* the locals of the running / last back_online call
    devices,    \* Devices: which of the optional hardware startup found (rtc, sdcard)
    flow        \* what the last operation of the main flow did (startup, settings, menus)

vars == <<files, addOrder, adds, clock, pc, drain, ncalls, last, nvOffline, connected, bo, devices, flow>>

(***************************************************************************)
(* Bounds                                                                   *)
(***************************************************************************)
MaxAdds == 2
MaxClock == 1
MaxQueued == 2
NearFull == 10
ProbeStride == 32

(***************************************************************************)
(* Python helpers                                                           *)
(***************************************************************************)
None == <<>>
Some(v) == <<v>>
Raise == <<>>
Return(v) == <<v>>

\* dict.update: the keys of q win
DictUpdate(p, q) == [k \in (DOMAIN p) \cup (DOMAIN q) |-> IF k \in DOMAIN q THEN q[k] ELSE p[k]]

\* del d[k]
DictDel(d, ks) == [k \in (DOMAIN d) \ ks |-> d[k]]

\* str comparison: lexicographic on the character codes
RECURSIVE StrLess(_, _)
StrLess(a, b) ==
    IF a = <<>> THEN b # <<>>
    ELSE IF b = <<>> THEN FALSE
    ELSE IF a[1] # b[1] THEN a[1] < b[1]
    ELSE StrLess(Tail(a), Tail(b))

\* the decimal digits of n, most significant first, as character codes ("0" is 48)
RECURSIVE Digits(_)
Digits(n) == IF n < 10 THEN <<48 + n>> ELSE Append(Digits(n \div 10), 48 + (n % 10))

RECURSIVE Zeros(_)
Zeros(k) == IF k <= 0 THEN <<>> ELSE <<48>> \o Zeros(k - 1)

\* f"{n:0w}": zero-padded to at least w characters
ZeroPad(n, w) == Zeros(w - Len(Digits(n))) \o Digits(n)

\* datetime.isoformat / datetime.fromisoformat: a datetime is a number of seconds,
\* its ISO 8601 text is a string
isoformat(t) == <<"iso", t>>
fromisoformat_epoch(s) == 0
fromisoformat(s) == s[2]

(***************************************************************************)
(* api.py: Timer                                                            *)
(***************************************************************************)
\* Timer.__init__
NewTimer(name, offline) ==
    [name |-> name, offline |-> offline, started_at |-> None, ended_at |-> None, timer_id |-> None]

\* Timer.as_payload, were a timer without an id and without a start time not refused
as_payload_unchecked(timer, rtcNow) ==
    IF timer.timer_id = None
    THEN Return([start |-> timer.started_at, end |-> timer.ended_at])
    ELSE Return([timer |-> timer.timer_id[1]])

\* Timer.cancel, were the delete request sent in either mode
cancel_always_deletes(timer) ==
    [timer |-> timer, calls |-> << [request |-> "DeleteTimerAPIRequest", id |-> timer.timer_id] >>]

\* Timer.cancel: the timer afterwards and the requests invoked
cancel(timer) ==
    IF ~ timer.offline
    THEN [timer |-> timer, calls |-> << [request |-> "DeleteTimerAPIRequest", id |-> timer.timer_id] >>]
    ELSE [timer |-> timer, calls |-> <<>>]

\* Timer.as_payload; rtcNow is None when the timer has no rtc, else the reading rtc.now() gives
as_payload(timer, rtcNow) ==
    IF timer.timer_id = None
    THEN IF timer.started_at = None THEN Raise
         ELSE IF timer.ended_at = None /\ rtcNow = None THEN Raise
         ELSE Return([start |-> isoformat(timer.started_at[1]),
                      end |-> isoformat(IF timer.ended_at = None THEN rtcNow[1] ELSE timer.ended_at[1])])
    ELSE Return([timer |-> timer.timer_id[1]])

\* Timer.from_payload, were "start"/"end" tested before "timer"
from_payload_local_first(name, payload) ==
    IF {"start", "end"} \subseteq DOMAIN payload
    THEN Return([NewTimer(name, TRUE) EXCEPT !.started_at = Some(fromisoformat(payload["start"])),
                                            !.ended_at = Some(fromisoformat(payload["end"]))])
    ELSE IF "timer" \in DOMAIN payload
    THEN Return([NewTimer(name, FALSE) EXCEPT !.timer_id = Some(payload["timer"])])
    ELSE Raise

\* Timer.from_payload
from_payload(name, payload) ==
    IF "timer" \in DOMAIN payload
    THEN Return([NewTimer(name, FALSE) EXCEPT !.timer_id = Some(payload["timer"])])
    ELSE IF {"start", "end"} \subseteq DOMAIN payload
    THEN Return([NewTimer(name, TRUE) EXCEPT !.started_at = Some(fromisoformat(payload["start"])),
                                            !.ended_at = Some(fromisoformat(payload["end"]))])
    ELSE Raise

\* APIRequest.merge_timer; timer is None or Some(Timer)
merge_timer(payload, timer) ==
    IF timer = None THEN Return(payload)
    ELSE IF as_payload(timer[1], None) = Raise THEN Raise
    ELSE Return(DictUpdate(payload, as_payload(timer[1], None)[1]))

\* TimerAPIRequest.get_timer_name
get_timer_name(name) == "babypod-" \o name

\* the for loop of Timer.start_or_resume over timers["results"]
RECURSIVE ScanTimers(_, _, _)
ScanTimers(results, max_id, timer) ==
    IF results = <<>> THEN timer
    ELSE IF max_id = None \/ Head(results).id > max_id[1]
    THEN ScanTimers(Tail(results), Some(Head(results).id), Some(Head(results)))
    ELSE ScanTimers(Tail(results), max_id, timer)

\* Timer.start_or_resume, were the first result taken
start_or_resume_first_match(timer, results, created_id) ==
    IF timer.offline THEN [timer |-> timer, calls |-> <<>>]
    ELSE IF results # <<>>
    THEN [timer |-> [timer EXCEPT !.timer_id = Some(Head(results).id),
                                  !.started_at = Some(fromisoformat(Head(results).start))],
          calls |-> << [request |-> "GetTimerAPIRequest", name |-> get_timer_name(timer.name)] >>]
    ELSE [timer |-> [timer EXCEPT !.timer_id = Some(created_id)],
          calls |-> << [request |-> "GetTimerAPIRequest", name |-> get_timer_name(timer.name)],
                       [request |-> "CreateTimerAPIRequest", name |-> get_timer_name(timer.name)] >>]

\* Timer.start_or_resume: the timer afterwards and the requests it invoked; results is
\* the answer to GetTimerAPIRequest, created_id the id CreateTimerAPIRequest would assign
start_or_resume(timer, results, created_id) ==
    IF timer.offline THEN [timer |-> timer, calls |-> <<>>]
    ELSE IF ScanTimers(results, None, None) # None
    THEN [timer |-> [timer EXCEPT !.timer_id = Some(ScanTimers(results, None, None)[1].id),
                                  !.started_at = Some(fromisoformat(ScanTimers(results, None, None)[1].start))],
          calls |-> << [request |-> "GetTimerAPIRequest", name |-> get_timer_name(timer.name)] >>]
    ELSE [timer |-> [timer EXCEPT !.timer_id = Some(created_id)],
          calls |-> << [request |-> "GetTimerAPIRequest", name |-> get_timer_name(timer.name)],
                       [request |-> "CreateTimerAPIRequest", name |-> get_timer_name(timer.name)] >>]

(***************************************************************************)
(* api.py: the request classes the queue knows                              *)
(***************************************************************************)
\* APIRequest.__init__ through a Post*APIRequest constructor; body is merge_timer's result
NewRequest(type, uri, body, timer) ==
    IF body = Raise THEN Raise
    ELSE Return([type |-> type, uri |-> uri, payload |-> body[1], timer |-> timer])

PostChangeAPIRequest(child_id, is_wet, is_solid) ==
    NewRequest("PostChangeAPIRequest", "changes",
               Return([child |-> child_id, wet |-> is_wet, solid |-> is_solid]), None)

PostPumpingAPIRequest(child_id, amount) ==
    NewRequest("PostPumpingAPIRequest", "pumping",
               Return([child |-> child_id, amount |-> amount]), None)

PostTummyTimeAPIRequest(child_id, timer) ==
    NewRequest("PostTummyTimeAPIRequest", "tummy-times",
               merge_timer([child |-> child_id], Some(timer)), Some(timer))

PostFeedingAPIRequest(child_id, food_type, method, timer) ==
    NewRequest("PostFeedingAPIRequest", "feedings",
               merge_timer([child |-> child_id, type |-> food_type, method |-> method], Some(timer)),
               Some(timer))

\* not in api.py as given: the sleep request, built like the tummy time request
PostSleepAPIRequest(child_id, timer) ==
    NewRequest("PostSleepAPIRequest", "sleep",
               merge_timer([child |-> child_id], Some(timer)), Some(timer))

\* Post*APIRequest.serialize_to_json
serialize_to_json(request) ==
    IF request.type = "PostChangeAPIRequest"
    THEN Return([child_id |-> request.payload["child"], is_wet |-> request.payload["wet"],
                 is_solid |-> request.payload["solid"]])
    ELSE IF request.type = "PostPumpingAPIRequest"
    THEN Return([child_id |-> request.payload["child"], amount |-> request.payload["amount"]])
    ELSE IF request.type \in {"PostTummyTimeAPIRequest", "PostSleepAPIRequest"}
    THEN merge_timer([child_id |-> request.payload["child"]], request.timer)
    ELSE IF request.type = "PostFeedingAPIRequest"
    THEN merge_timer([child_id |-> request.payload["child"], food_type |-> request.payload["type"],
                      method |-> request.payload["method"]], request.timer)
    ELSE Raise

\* PostChangeAPIRequest.deserialize_from_json, were is_wet and is_solid exchanged
deserialize_change_swapped(json) ==
    IF {"child_id", "is_wet", "is_solid"} \subseteq DOMAIN json
    THEN PostChangeAPIRequest(json["child_id"], json["is_solid"], json["is_wet"])
    ELSE Raise

\* Post*APIRequest.deserialize_from_json; a missing key is a KeyError
deserialize_change(json) ==
    IF {"child_id", "is_wet", "is_solid"} \subseteq DOMAIN json
    THEN PostChangeAPIRequest(json["child_id"], json["is_wet"], json["is_solid"])
    ELSE Raise

deserialize_pumping(json) ==
    IF {"child_id", "amount"} \subseteq DOMAIN json
    THEN PostPumpingAPIRequest(json["child_id"], json["amount"])
    ELSE Raise

deserialize_tummy_time(json) ==
    IF from_payload("tummy-time", json) = Raise \/ "child_id" \notin DOMAIN json THEN Raise
    ELSE PostTummyTimeAPIRequest(json["child_id"], from_payload("tummy-time", json)[1])

deserialize_feeding(json) ==
    IF from_payload("feeding", json) = Raise
       \/ ~ ({"child_id", "food_type", "method"} \subseteq DOMAIN json) THEN Raise
    ELSE PostFeedingAPIRequest(json["child_id"], json["food_type"], json["method"],
                               from_payload("feeding", json)[1])

deserialize_sleep(json) ==
    IF from_payload("sleep", json) = Raise \/ "child_id" \notin DOMAIN json THEN Raise
    ELSE PostSleepAPIRequest(json["child_id"], from_payload("sleep", json)[1])

(***************************************************************************)
(* offline_event_queue.py: file names                                       *)
(***************************************************************************)
ClockWidth == 14     \* year:04 month:02 day:02 hour:02 minute:02 second:02
SuffixWidth == 4     \* i:04
SuffixLimit == 1000  \* while i < 1000

\* the name, were the numbers formatted without a width
FileName_unpadded(key) == Digits(key[1]) \o <<45>> \o Digits(key[2])

\* A file is named in the state by the pair <<now, i>> its name is formatted from; the
\* name itself is f"{formatted_now}-{i:04}" (the directory prefix and ".json" are the
\* same in every name and left out). A clock reading is the number its fourteen digits
\* spell. Distinct pairs give distinct names.
FileName(key) == ZeroPad(key[1], ClockWidth) \o <<45>> \o ZeroPad(key[2], SuffixWidth)

\* list.sort() on the names os.listdir() returns (a set: its order is not specified)
RECURSIVE SortedNames(_)
SortedNames(S) ==
    IF S = {} THEN <<>>
    ELSE LET m == CHOOSE x \in S : \A y \in S \ {x} : StrLess(FileName(x), FileName(y))
         IN <<m>> \o SortedNames(S \ {m})

\* OfflineEventQueue.get_json_files
get_json_files(dir) == SortedNames(DOMAIN dir)

\* the orders in which os.listdir may report the names of a directory
ListingOrders(dir) ==
    {p \in [1..Cardinality(DOMAIN dir) -> DOMAIN dir] :
        \A i, j \in 1..Cardinality(DOMAIN dir) : i # j => p[i] # p[j]}

\* list.sort() on a list of names, by insertion
InsertSorted(sorted, x) ==
    SelectSeq(sorted, LAMBDA y : StrLess(FileName(y), FileName(x))) \o <<x>>
        \o SelectSeq(sorted, LAMBDA y : ~ StrLess(FileName(y), FileName(x)))
RECURSIVE list_sort(_)
list_sort(names) == IF names = <<>> THEN <<>> ELSE InsertSorted(list_sort(Tail(names)), Head(names))

\* the while loop of build_json_filename, from suffix i on. A run of ProbeStride names
\* that all exist is passed in one step, as the loop would pass it name by name: the
\* result is the same and the evaluation stays shallow on a nearly full directory.
RECURSIVE ProbeSuffix(_, _, _)
ProbeSuffix(dir, now, i) ==
    IF i < SuffixLimit
    THEN IF <<now, i>> \in DOMAIN dir
         THEN IF /\ i + ProbeStride <= SuffixLimit
                 /\ \A j \in i..(i + ProbeStride - 1) : <<now, j>> \in DOMAIN dir
              THEN ProbeSuffix(dir, now, i + ProbeStride)
              ELSE ProbeSuffix(dir, now, i + 1)
         ELSE Return(<<now, i>>)
    ELSE Raise

\* build_json_filename, were the loop not limited to a thousand suffixes
build_json_filename_unbounded(dir, now) ==
    Return(<<now, CHOOSE i \in 0..Cardinality(DOMAIN dir) :
                     /\ <<now, i>> \notin DOMAIN dir
                     /\ \A j \in 0..(i - 1) : <<now, j>> \in DOMAIN dir>>)

\* build_json_filename, were the name not probed with os.stat
build_json_filename_unprobed(dir, now) == Return(<<now, 0>>)

\* OfflineEventQueue.build_json_filename
build_json_filename(dir, now) == ProbeSuffix(dir, now, 0)

\* json.dump to a file and json.load from it: a file body is <<>> while the text is
\* incomplete and <<item>> once the whole text is written
json_dump(item) == <<item>>
json_load(body) == IF body = <<>> THEN Raise ELSE Return(body[1])

\* os.unlink raises OSError for a name that does not exist
unlink_raises(dir, name) == name \notin DOMAIN dir

\* the directory after os.unlink
unlink(dir, name) == [n \in (DOMAIN dir) \ {name} |-> dir[n]]

\* open(filename, "w") followed by a write of body
write_file(dir, name, body) == [n \in (DOMAIN dir) \cup {name} |-> IF n = name THEN body ELSE dir[n]]

\* OfflineEventQueue.init_api_request
init_api_request(class_name, payload) ==
    IF class_name = "PostFeedingAPIRequest" THEN deserialize_feeding(payload)
    ELSE IF class_name = "PostChangeAPIRequest" THEN deserialize_change(payload)
    ELSE IF class_name = "PostPumpingAPIRequest" THEN deserialize_pumping(payload)
    ELSE IF class_name = "PostTummyTimeAPIRequest" THEN deserialize_tummy_time(payload)
    ELSE IF class_name = "PostSleepAPIRequest" THEN deserialize_sleep(payload)
    ELSE Raise

(***************************************************************************)
(* offline_event_queue.py: replay_all, one queue entry                      *)
(***************************************************************************)
\* the timer check, were the test against the live timer ids left out
Reconcile_keeps_stale(payload, existing_timer_ids) ==
    IF "timer" \in DOMAIN payload /\ {"start", "end"} \subseteq DOMAIN payload
    THEN DictDel(payload, {"start", "end"})
    ELSE payload

\* the timer check of replay_all on request.payload
Reconcile(payload, existing_timer_ids) ==
    IF "timer" \in DOMAIN payload
    THEN IF payload["timer"] \notin existing_timer_ids THEN DictDel(payload, {"timer"})
         ELSE IF {"start", "end"} \subseteq DOMAIN payload THEN DictDel(payload, {"start", "end"})
         ELSE payload
    ELSE payload

\* the try block of replay_all up to request.invoke(): None when init_api_request raises,
\* else the request as it is invoked
PrepareRequest(item, existing_timer_ids) ==
    IF init_api_request(item.type, item.payload) = Raise THEN None
    ELSE LET request == init_api_request(item.type, item.payload)[1]
         IN Some([request EXCEPT !.payload = Reconcile(request.payload, existing_timer_ids)])

\* the except clause, were the exception swallowed without a callback too
FailureRaises_never(has_callback) == FALSE

\* the except clause, were the exception raised again after the callback
FailureRaises_always(has_callback) == TRUE

\* the except clause: does the exception leave replay_all?
FailureRaises(has_callback) == ~ has_callback

\* the value of delete, were the result of on_failed_event dropped
DeleteFlag_ignores_callback(delete_on_success, failed, callback_result) == delete_on_success

\* the value of delete, were every submitted record removed
DeleteFlag_always_on_success(delete_on_success, failed, callback_result) ==
    IF failed THEN callback_result ELSE TRUE

\* the value of delete, were every record removed once its turn is over
DeleteFlag_always(delete_on_success, failed, callback_result) == TRUE

\* the value of delete when the loop body reaches "if delete"
DeleteFlag(delete_on_success, failed, callback_result) ==
    IF failed THEN callback_result ELSE delete_on_success

\* what one turn of the for loop does with a file body, given whether invoke() succeeds
\* and what on_failed_event would return; callback_args holds the argument of each
\* on_failed_event call made
ReplayEntry(body, existing_timer_ids, has_callback, delete_on_success, invoke_ok, callback_result) ==
    LET request == IF json_load(body) = Raise THEN None
                   ELSE PrepareRequest(json_load(body)[1], existing_timer_ids) IN
    LET loaded == json_load(body) # Raise
        invoked == request # None
        failed == loaded /\ (~ invoked \/ ~ invoke_ok)
        raised == ~ loaded \/ (failed /\ FailureRaises(has_callback))
    IN [loaded |-> loaded,
        request |-> request,
        invoked |-> invoked,
        ok |-> invoked /\ invoke_ok,
        failed |-> failed,
        callback_args |-> IF failed /\ has_callback THEN <<request>> ELSE <<>>,
        callback_result |-> failed /\ has_callback /\ callback_result,
        raised |-> raised,
        delete |-> ~ raised /\ DeleteFlag(delete_on_success, failed, callback_result)]

(***************************************************************************)
(* The state machine                                                        *)
(***************************************************************************)
TimerIds == {5, 7}

\* the answers of the live timer query
LiveSets == {{5}, {7}}

LocalTimer(name, s, e) == [NewTimer(name, TRUE) EXCEPT !.started_at = Some(s), !.ended_at = Some(e)]
RemoteTimer(name, id) == [NewTimer(name, FALSE) EXCEPT !.timer_id = Some(id)]

\* the requests the menus hand to add()
AddRequests ==
    { PostChangeAPIRequest(1, TRUE, FALSE)[1],
      PostTummyTimeAPIRequest(1, LocalTimer("tummy_time", 0, 1))[1],
      PostFeedingAPIRequest(1, "breast milk", "bottle", RemoteTimer("feeding", 5))[1] }

\* records a queue directory may hold when the queue object is constructed over it:
\* one of a kind this firmware does not know, one with a timer id and start/end
ForeignBodies ==
    { json_dump([type |-> "PostNoteAPIRequest", payload |-> [child_id |-> 1]]),
      json_dump([type |-> "PostFeedingAPIRequest",
                 payload |-> [child_id |-> 1, food_type |-> "breast milk", method |-> "bottle",
                              timer |-> 5, start |-> isoformat(0), end |-> isoformat(1)]]) }

EmptyDir == [n \in {} |-> <<>>]

InitialDirs == {EmptyDir} \cup { write_file(EmptyDir, <<0, 0>>, b) : b \in ForeignBodies }

NoDrain ==
    [status |-> "none", files |-> <<>>, pos |-> 0, index |-> 0, timers_ok |-> FALSE, existing |-> {},
     has_callback |-> FALSE, delete_on_success |-> FALSE, before |-> EmptyDir, progress |-> <<>>,
     nok |-> 0]

NoEntry ==
    [name |-> <<>>,
     out |-> [loaded |-> FALSE, request |-> None, invoked |-> FALSE, ok |-> FALSE, failed |-> FALSE,
              callback_args |-> <<>>, callback_result |-> FALSE, raised |-> FALSE, delete |-> FALSE]]

NoBackOnline ==
    [status |-> "none", files |-> <<>>, pos |-> 0, connect_ok |-> FALSE, drains |-> 0, submits |-> 0,
     went_offline |-> FALSE, before |-> EmptyDir]

\* nothing recorded of the main flow yet
NoFlow ==
    [op |-> "none",            \* "startup" | "offline" | "menu" | "timer" | "add" | "unlink" |
                               \* "list" | "cancel" | "payload" | "delivered"
     was_offline |-> FALSE,    \* NVRAMValues.OFFLINE when the operation began
     offline |-> FALSE,        \* NVRAMValues.OFFLINE as auto_connect / the menu read it
     connect_ok |-> FALSE,     \* ConnectionManager.connect() returned
     ac_raised |-> FALSE,      \* auto_connect raised
     went_offline |-> FALSE,   \* self.offline() was called
     raised |-> FALSE,         \* the operation ended with an exception
     sync_failed |-> FALSE,    \* rtc.sync() was called and failed
     force_rtc |-> FALSE,      \* NVRAMValues.FORCE_RTC_UPDATE.write(True) was called
     timer_before |-> None,    \* the timer before the operation
     rtc_now |-> None,         \* what the timer's rtc reads, None without an rtc
     request |-> None, filename |-> None, invoked |-> FALSE, enqueued |-> FALSE,
     timer |-> None, results |-> <<>>, created |-> None, calls |-> <<>>, before |-> EmptyDir]

\* the queue object exists: Flow.__init__ builds it only with an RTC and an SD card
Init ==
    /\ files \in InitialDirs
    /\ addOrder = <<>>
    /\ adds = 0
    /\ clock = 0
    /\ pc = "idle"
    /\ drain = NoDrain
    /\ ncalls = 0
    /\ last = NoEntry
    /\ nvOffline = TRUE
    /\ connected = FALSE
    /\ bo = NoBackOnline
    /\ devices = [rtc |-> TRUE, sdcard |-> TRUE]
    /\ flow = NoFlow

\* a second passes on the real time clock
Tick ==
    /\ pc = "idle"
    /\ clock < MaxClock
    /\ clock' = clock + 1
    /\ UNCHANGED <<files, addOrder, adds, pc, drain, ncalls, last, nvOffline, connected, bo, devices, flow>>

\* ExternalRTC.sync sets the clock from the network: it may jump either way
ClockSync ==
    /\ pc = "idle"
    /\ \E t \in 0..MaxClock : t # clock /\ clock' = t
    /\ UNCHANGED <<files, addOrder, adds, pc, drain, ncalls, last, nvOffline, connected, bo, devices, flow>>

\* OfflineEventQueue.add(request)
Add ==
    /\ pc = "idle"
    /\ adds < MaxAdds
    /\ \E request \in AddRequests, now \in {clock} :
        \E serialized \in {serialize_to_json(request)}, filename \in {build_json_filename(files, now)} :
           /\ serialized # Raise
           /\ filename # Raise
           /\ files' = write_file(files, filename[1],
                                  json_dump([type |-> request.type, payload |-> serialized[1]]))
           /\ addOrder' = Append(addOrder, filename[1])
    /\ adds' = adds + 1
    /\ drain' = NoDrain
    /\ ncalls' = 0
    /\ last' = NoEntry
    /\ bo' = NoBackOnline
    /\ UNCHANGED <<clock, pc, nvOffline, connected, devices, flow>>

\* were a failed live timer query caught and the loop entered with no live timers
AfterTimerQuery_ignores_failure(timers_ok) == "running"

\* where replay_all is after the live timer query
AfterTimerQuery(timers_ok) == IF timers_ok THEN "running" ELSE "raised"

\* were the live timers queried before the listing is tested for being empty
StartStatus_queries_first(listed, timers_ok) ==
    IF ~ timers_ok THEN "raised" ELSE IF listed = <<>> THEN "returned" ELSE "running"

\* where replay_all is when it reaches its loop: "if not files: return" comes first
StartStatus(listed, timers_ok) == IF listed = <<>> THEN "returned" ELSE AfterTimerQuery(timers_ok)

\* replay_all up to the loop: the listing, the empty check, the live timer query
ReplayAllStart ==
    /\ pc = "idle"
    /\ \E listed \in {get_json_files(files)} :
       \E has_callback \in BOOLEAN, delete_on_success \in BOOLEAN, timers_ok \in BOOLEAN,
          existing \in LiveSets :
        LET status == StartStatus(listed, timers_ok)
        IN /\ drain' = [status |-> status, files |-> listed, pos |-> 1, index |-> 0,
                        timers_ok |-> timers_ok /\ listed # <<>>,
                        existing |-> IF timers_ok /\ listed # <<>> THEN existing ELSE {},
                        has_callback |-> has_callback, delete_on_success |-> delete_on_success,
                        before |-> files, progress |-> <<>>, nok |-> 0]
           /\ pc' = IF status = "running" THEN "replay" ELSE "idle"
    /\ ncalls' = 0
    /\ last' = NoEntry
    /\ UNCHANGED <<files, addOrder, adds, clock, nvOffline, connected, bo, devices, flow>>

\* one turn of replay_all's for loop
ReplayAllEntry ==
    /\ pc = "replay"
    /\ \E invoke_ok \in BOOLEAN, callback_result \in BOOLEAN :
        \E name \in {drain.files[drain.pos]} :
        \E out \in {ReplayEntry(files[name], drain.existing, drain.has_callback,
                                drain.delete_on_success, invoke_ok, callback_result)} :
        LET finished == out.raised \/ drain.pos = Len(drain.files)
        IN /\ last' = [name |-> name, out |-> out]
           /\ ncalls' = IF out.invoked THEN ncalls + 1 ELSE ncalls
           /\ files' = IF out.delete THEN unlink(files, name) ELSE files
           /\ drain' = [drain EXCEPT !.pos = IF out.raised THEN @ ELSE @ + 1,
                                    !.progress = Append(@, <<drain.index, Len(drain.files)>>),
                                    !.nok = IF out.ok THEN @ + 1 ELSE @,
                                    !.status = IF out.raised THEN "raised"
                                               ELSE IF finished THEN "returned" ELSE "running"]
           /\ pc' = IF finished THEN "idle" ELSE "replay"
    /\ UNCHANGED <<addOrder, adds, clock, nvOffline, connected, bo, devices, flow>>

\* add() cut short by a power loss after open(filename, "w") and before the text is
\* all written and flushed; the device restarts
AddInterrupted ==
    /\ pc = "idle"
    /\ adds < MaxAdds
    /\ \E request \in AddRequests, filename \in {build_json_filename(files, clock)} :
           /\ serialize_to_json(request) # Raise
           /\ filename # Raise
           /\ files' = write_file(files, filename[1], <<>>)
    /\ adds' = adds + 1
    /\ drain' = NoDrain
    /\ ncalls' = 0
    /\ last' = NoEntry
    /\ UNCHANGED <<addOrder, clock, pc, nvOffline, connected, bo, devices, flow>>

\* one turn of replay_all's for loop in which the submission fails and on_failed_event
\* removes the record itself before it returns
ReplayAllEntryRecordGone ==
    /\ pc = "replay"
    /\ drain.has_callback
    /\ \E callback_result \in BOOLEAN :
        \E name \in {drain.files[drain.pos]} :
        \E out \in {ReplayEntry(files[name], drain.existing, TRUE, drain.delete_on_success,
                                FALSE, callback_result)},
           gone \in {unlink(files, name)} :
        LET raises == out.delete /\ unlink_raises(gone, name)
            finished == raises \/ drain.pos = Len(drain.files)
        IN /\ out.failed
           /\ last' = [name |-> name, out |-> out]
           /\ ncalls' = IF out.invoked THEN ncalls + 1 ELSE ncalls
           /\ files' = gone
           /\ drain' = [drain EXCEPT !.pos = IF raises THEN @ ELSE @ + 1,
                                    !.progress = Append(@, <<drain.index, Len(drain.files)>>),
                                    !.status = IF raises THEN "raised"
                                               ELSE IF finished THEN "returned" ELSE "running"]
           /\ pc' = IF finished THEN "idle" ELSE "replay"
           /\ flow' = IF out.delete
                      THEN [NoFlow EXCEPT !.op = "unlink", !.filename = Some(name),
                                         !.raised = raises, !.before = gone]
                      ELSE NoFlow
    /\ UNCHANGED <<addOrder, adds, clock, nvOffline, connected, bo, devices>>

(***************************************************************************)
(* flow.py: the connection mode                                             *)
(***************************************************************************)
\* Flow.auto_connect while NVRAMValues.OFFLINE is false: does the exception of a failed
\* ConnectionManager.connect() leave auto_connect?
AutoConnectRaises(connect_ok, has_rtc, has_sdcard) == ~ connect_ok /\ ~ (has_rtc /\ has_sdcard)

\* Flow.auto_connect: whether it raises, whether a session is held afterwards, whether
\* it called self.offline()
auto_connect(offline, connect_ok, has_rtc, has_sdcard) ==
    IF ~ offline
    THEN [raised |-> AutoConnectRaises(connect_ok, has_rtc, has_sdcard),
          connected |-> connect_ok,
          went_offline |-> ~ connect_ok /\ has_rtc /\ has_sdcard]
    ELSE IF ~ has_rtc
    THEN [raised |-> TRUE, connected |-> FALSE, went_offline |-> FALSE]
    ELSE [raised |-> FALSE, connected |-> FALSE, went_offline |-> FALSE]

\* code.py: the optional hardware; the SD card is looked for only with an RTC
NoDevices == [rtc |-> FALSE, sdcard |-> FALSE]
DetectDevices(rtc_exists, sd_ok) == [rtc |-> rtc_exists, sdcard |-> rtc_exists /\ sd_ok]

\* code.py: NVRAMValues.OFFLINE after the detection; a failed mount clears it
OfflineAfterDetect(offline, rtc_exists, sd_ok) == IF rtc_exists /\ ~ sd_ok THEN FALSE ELSE offline

\* Flow.refresh_rtc: with OFFLINE set it clears the flag and raises, else it syncs;
\* when the sync fails it writes FORCE_RTC_UPDATE and raises the exception again
refresh_rtc(offline, sync_ok) ==
    [raised |-> offline \/ ~ sync_ok, offline |-> FALSE,
     sync_failed |-> ~ offline /\ ~ sync_ok, force_rtc |-> ~ offline /\ ~ sync_ok]

\* what init_rtc leaves when it does not call refresh_rtc
NoRefresh(raised, offline) ==
    [raised |-> raised, offline |-> offline, sync_failed |-> FALSE, force_rtc |-> FALSE]

\* what init_rtc finds: the clock is fine, must be set (forced or implausible), or was
\* last set more than a day ago
RtcChecks == {"ok", "refresh", "stale"}

\* Flow.init_rtc; without an SD card self.offline_state is None and line 165 raises
init_rtc(dev, offline, rtc_check, sync_ok) ==
    IF ~ dev.rtc THEN NoRefresh(FALSE, offline)
    ELSE IF rtc_check = "refresh" THEN refresh_rtc(offline, sync_ok)
    ELSE IF ~ dev.sdcard THEN NoRefresh(TRUE, offline)
    ELSE IF rtc_check = "stale" /\ ~ offline THEN refresh_rtc(offline, sync_ok)
    ELSE NoRefresh(FALSE, offline)

\* is_available of the Offline setting
OfflineSettingAvailable(dev) == dev.rtc /\ dev.sdcard

\* Setting.save(value): stores the value in the backing NVRAM flag, then calls on_save
SettingSave(value) == value

\* OfflineEventQueue.replay(filename) as back_online calls it: the entry is submitted
\* and, on success, removed; any failure raises
Replay(body, invoke_ok) ==
    LET request == IF json_load(body) = Raise THEN None
                   ELSE init_api_request(json_load(body)[1].type, json_load(body)[1].payload)
        invoked == request # None
    IN [invoked |-> invoked,
        ok |-> invoked /\ invoke_ok,
        raised |-> ~ (invoked /\ invoke_ok),
        delete |-> invoked /\ invoke_ok]

\* Flow.back_online up to its loop; the Offline setting exists only with an RTC and an
\* SD card, so both are present
BackOnlineStart ==
    /\ pc = "idle"
    /\ nvOffline
    /\ \E connect_ok \in BOOLEAN :
       \E raises \in {AutoConnectRaises(connect_ok, TRUE, TRUE)}, listed \in {get_json_files(files)} :
           /\ connected' = connect_ok
           /\ nvOffline' = FALSE
           /\ bo' = [status |-> IF raises THEN "raised" ELSE IF listed = <<>> THEN "returned" ELSE "running",
                     files |-> IF raises THEN <<>> ELSE listed, pos |-> 1, connect_ok |-> connect_ok,
                     drains |-> IF raises THEN 0 ELSE 1, submits |-> 0,
                     went_offline |-> auto_connect(FALSE, connect_ok, TRUE, TRUE).went_offline,
                     before |-> files]
           /\ pc' = IF ~ raises /\ listed # <<>> THEN "online" ELSE "idle"
    /\ drain' = NoDrain
    /\ ncalls' = 0
    /\ last' = NoEntry
    /\ flow' = NoFlow
    /\ UNCHANGED <<files, addOrder, adds, clock, devices>>

\* one turn of back_online's for loop
BackOnlineEntry ==
    /\ pc = "online"
    /\ \E invoke_ok \in BOOLEAN :
       \E name \in {bo.files[bo.pos]} :
       \E out \in {Replay(files[name], invoke_ok)} :
       LET finished == out.raised \/ bo.pos = Len(bo.files)
       IN /\ files' = IF out.delete THEN unlink(files, name) ELSE files
          /\ nvOffline' = IF out.raised THEN TRUE ELSE nvOffline
          /\ bo' = [bo EXCEPT !.pos = IF out.raised THEN @ ELSE @ + 1,
                              !.submits = IF out.invoked THEN @ + 1 ELSE @,
                              !.status = IF out.raised THEN "raised"
                                         ELSE IF finished THEN "returned" ELSE "running"]
          /\ pc' = IF finished THEN "idle" ELSE "online"
    /\ UNCHANGED <<addOrder, adds, clock, drain, ncalls, last, connected, devices, flow>>

\* the menus while NVRAMValues.OFFLINE is set: the request goes to the queue
OfflineAdd == nvOffline /\ Add

\* before the first start: the flag holds what an earlier run left, the queue is empty
InitMode ==
    /\ files = EmptyDir
    /\ addOrder = <<>>
    /\ adds = 0
    /\ clock = 0
    /\ pc = "off"
    /\ drain = NoDrain
    /\ ncalls = 0
    /\ last = NoEntry
    /\ nvOffline \in BOOLEAN
    /\ connected = FALSE
    /\ bo = NoBackOnline
    /\ devices = NoDevices
    /\ flow = NoFlow

\* code.py from the hardware detection on, Flow.__init__ and Flow.device_startup
\* (auto_connect, init_rtc); an exception ends in code.py's handler, which resets
Startup ==
    /\ pc = "off"
    /\ \E rtc_exists \in BOOLEAN, sd_ok \in BOOLEAN, connect_ok \in BOOLEAN,
          rtc_check \in RtcChecks, sync_ok \in BOOLEAN :
       \E dev \in {DetectDevices(rtc_exists, sd_ok)},
          nv \in {OfflineAfterDetect(nvOffline, rtc_exists, sd_ok)} :
       \E ac \in {auto_connect(nv, connect_ok, dev.rtc, dev.sdcard)} :
       \E ir \in {IF ac.raised THEN NoRefresh(TRUE, nv)
                   ELSE init_rtc(dev, nv, rtc_check, sync_ok /\ ac.connected)} :
           /\ devices' = dev
           /\ nvOffline' = ir.offline
           /\ connected' = (ac.connected /\ ~ ir.raised)
           /\ pc' = IF ir.raised THEN "off" ELSE "idle"
           /\ flow' = [NoFlow EXCEPT !.op = "startup", !.was_offline = nvOffline, !.offline = nv,
                                     !.connect_ok = (~ nv /\ connect_ok), !.ac_raised = ac.raised,
                                     !.went_offline = ac.went_offline, !.raised = ir.raised,
                                     !.sync_failed = ir.sync_failed, !.force_rtc = ir.force_rtc]
    /\ bo' = NoBackOnline
    /\ UNCHANGED <<files, addOrder, adds, clock, drain, ncalls, last>>

\* the device is switched off or resets
Shutdown ==
    /\ pc = "idle"
    /\ pc' = "off"
    /\ connected' = FALSE
    /\ flow' = NoFlow
    /\ bo' = NoBackOnline
    /\ UNCHANGED <<files, addOrder, adds, clock, drain, ncalls, last, nvOffline, devices>>

\* the Offline setting switched on: Setting.save, then Flow.offline
SettingsOffline ==
    /\ pc = "idle"
    /\ OfflineSettingAvailable(devices)
    /\ ~ nvOffline
    /\ nvOffline' = SettingSave(TRUE)
    /\ connected' = FALSE
    /\ flow' = [NoFlow EXCEPT !.op = "offline", !.was_offline = nvOffline, !.went_offline = TRUE]
    /\ bo' = NoBackOnline
    /\ UNCHANGED <<files, addOrder, adds, clock, pc, drain, ncalls, last, devices>>

\* the Offline setting switched off: Flow.back_online
SettingsBackOnlineStart ==
    /\ OfflineSettingAvailable(devices)
    /\ BackOnlineStart

\* the requests the menus build: every kind, with a local and with a remote timer
MenuRequests ==
    AddRequests \cup
    { PostPumpingAPIRequest(1, 2)[1],
      PostTummyTimeAPIRequest(1, RemoteTimer("tummy_time", 7))[1],
      PostFeedingAPIRequest(1, "formula", "bottle", LocalTimer("feeding", 0, 0))[1],
      PostSleepAPIRequest(1, LocalTimer("sleep", 0, 1))[1],
      PostSleepAPIRequest(1, RemoteTimer("sleep", 5))[1] }

\* were the flag never consulted and every request invoked
Enqueues_never(offline) == FALSE

\* "if NVRAMValues.OFFLINE:" in the menus
Enqueues(offline) == offline

\* Flow.diaper, pumping, save_feeding, sleep, tummy_time from the built request on:
\* offline_queue.add(request) or request.invoke()
MenuOperation ==
    /\ pc = "idle"
    /\ \E request \in MenuRequests, invoke_ok \in BOOLEAN :
        IF Enqueues(nvOffline)
        THEN /\ invoke_ok
             /\ OfflineSettingAvailable(devices)
             /\ Cardinality(DOMAIN files) < MaxQueued
             /\ \E serialized \in {serialize_to_json(request)},
                   filename \in {build_json_filename(files, clock)} :
                  /\ serialized # Raise
                  /\ filename # Raise
                  /\ files' = write_file(files, filename[1],
                                         json_dump([type |-> request.type, payload |-> serialized[1]]))
                  /\ flow' = [NoFlow EXCEPT !.op = "menu", !.was_offline = nvOffline,
                                            !.offline = nvOffline, !.request = Some(request),
                                            !.filename = Some(filename[1]), !.enqueued = TRUE,
                                            !.before = files]
             /\ UNCHANGED connected
        ELSE /\ files' = files
             /\ flow' = [NoFlow EXCEPT !.op = "menu", !.was_offline = nvOffline,
                                       !.offline = nvOffline, !.request = Some(request),
                                       !.invoked = TRUE, !.raised = ~ invoke_ok, !.before = files]
             /\ connected' = (connected \/ invoke_ok)
    /\ bo' = NoBackOnline
    /\ UNCHANGED <<addOrder, adds, clock, pc, drain, ncalls, last, nvOffline, devices>>

\* the timers the remote service may report for a name, and the id it gives a new one
TimerQueryResults ==
    { <<>>, << [id |-> 3, start |-> isoformat(0)] >>, << [id |-> 9, start |-> isoformat(1)] >>,
      << [id |-> 3, start |-> isoformat(0)], [id |-> 9, start |-> isoformat(1)] >>,
      << [id |-> 9, start |-> isoformat(1)], [id |-> 3, start |-> isoformat(0)] >> }
CreatedTimerIds == {11}
TimerNames == {"feeding", "pumping", "sleep", "tummy_time"}

\* Flow.start_or_resume_timer up to the timer screen, without an existing timer
StartTimer ==
    /\ pc = "idle"
    /\ \E name \in TimerNames, results \in TimerQueryResults, created_id \in CreatedTimerIds :
       \E timer \in {IF nvOffline THEN [NewTimer(name, TRUE) EXCEPT !.started_at = Some(clock)]
                      ELSE NewTimer(name, FALSE)} :
       \E out \in {start_or_resume(timer, results, created_id)} :
           flow' = [NoFlow EXCEPT !.op = "timer", !.was_offline = nvOffline, !.offline = nvOffline,
                                 !.timer = Some(out.timer), !.calls = out.calls,
                                 !.rtc_now = IF nvOffline THEN Some(clock) ELSE None,
                                 !.results = IF nvOffline THEN <<>> ELSE results,
                                 !.created = IF nvOffline THEN None ELSE Some(created_id)]
    /\ bo' = NoBackOnline
    /\ UNCHANGED <<files, addOrder, adds, clock, pc, drain, ncalls, last, nvOffline, connected, devices>>

\* Flow.start_or_resume_timer when the timer screen is left with a cancel
CancelTimer ==
    /\ pc = "idle"
    /\ flow.op = "timer"
    /\ \E out \in {cancel(flow.timer[1])} :
           flow' = [NoFlow EXCEPT !.op = "cancel", !.was_offline = flow.was_offline,
                                 !.offline = flow.offline, !.timer_before = flow.timer,
                                 !.timer = Some(out.timer), !.calls = out.calls]
    /\ bo' = NoBackOnline
    /\ UNCHANGED <<files, addOrder, adds, clock, pc, drain, ncalls, last, nvOffline, connected, devices>>

\* the payloads a stored timer reference comes back as
StoredTimerPayloads == {[timer |-> 5], [start |-> isoformat(0), end |-> isoformat(1)]}

\* the timers as_payload may be asked for, each with what its rtc reads: one just
\* constructed, the one start_or_resume_timer started, one from_payload restored
SessionTimers(f, now) ==
    {[timer |-> NewTimer(name, offline), rtc_now |-> IF offline THEN Some(now) ELSE None] :
        name \in TimerNames, offline \in BOOLEAN}
    \cup (IF f.op = "timer"
          THEN {[timer |-> f.timer[1], rtc_now |-> IF f.timer[1].offline THEN Some(now) ELSE None]}
          ELSE {})
    \cup {[timer |-> from_payload(name, payload)[1], rtc_now |-> None] :
            name \in TimerNames, payload \in StoredTimerPayloads}

\* Timer.as_payload on one of these timers
TimerPayload ==
    /\ pc = "idle"
    /\ \E session \in SessionTimers(flow, clock) :
           flow' = [NoFlow EXCEPT !.op = "payload", !.timer = Some(session.timer),
                                 !.rtc_now = session.rtc_now,
                                 !.results = as_payload(session.timer, session.rtc_now)]
    /\ bo' = NoBackOnline
    /\ UNCHANGED <<files, addOrder, adds, clock, pc, drain, ncalls, last, nvOffline, connected, devices>>

Next == Add \/ ReplayAllStart \/ ReplayAllEntry

\* the queue and its replay within one second of the clock
Spec == Init /\ [][Next]_vars

NextClock == Next \/ Tick \/ ClockSync

\* the queue and its replay while time passes and the clock is resynchronised
SpecClock == Init /\ [][NextClock]_vars

\* the seconds at which a queue may start to fill: 9 is followed by a second that
\* takes one digit more
ListingClocks == {0, 9}

\* an empty queue
InitListing ==
    /\ files = EmptyDir
    /\ addOrder = <<>>
    /\ adds = 0
    /\ clock \in ListingClocks
    /\ pc = "idle"
    /\ drain = NoDrain
    /\ ncalls = 0
    /\ last = NoEntry
    /\ nvOffline = TRUE
    /\ connected = FALSE
    /\ bo = NoBackOnline
    /\ devices = [rtc |-> TRUE, sdcard |-> TRUE]
    /\ flow = NoFlow

\* a second passes on the real time clock
TickOn ==
    /\ pc = "idle"
    /\ \E c \in ListingClocks : c <= clock /\ clock < c + MaxClock
    /\ clock' = clock + 1
    /\ UNCHANGED <<files, addOrder, adds, pc, drain, ncalls, last, nvOffline, connected, bo, devices, flow>>

\* OfflineEventQueue.get_json_files, with the order os.listdir reports the names in
ListDir ==
    /\ pc = "idle"
    /\ \E listing \in ListingOrders(files) :
          flow' = [NoFlow EXCEPT !.op = "list", !.calls = listing, !.results = list_sort(listing),
                                !.before = files]
    /\ UNCHANGED <<files, addOrder, adds, clock, pc, drain, ncalls, last, nvOffline, connected, bo, devices>>

NextListing == Add \/ TickOn \/ ListDir

\* a queue that only grows, on a clock that only advances, and its listing
SpecListing == InitListing /\ [][NextListing]_vars

\* one turn of replay_all's for loop in which invoke() returns and the device loses
\* power before "if delete: os.unlink"; the device restarts
ReplayAllEntryPowerLoss ==
    /\ pc = "replay"
    /\ drain.delete_on_success
    /\ \E name \in {drain.files[drain.pos]} :
        \E out \in {ReplayEntry(files[name], drain.existing, drain.has_callback, TRUE, TRUE, FALSE)} :
           /\ out.ok
           /\ flow' = [NoFlow EXCEPT !.op = "delivered", !.filename = Some(name),
                                     !.request = out.request, !.invoked = TRUE,
                                     !.results = addOrder, !.before = files]
    /\ pc' = "idle"
    /\ drain' = NoDrain
    /\ ncalls' = 0
    /\ last' = NoEntry
    /\ UNCHANGED <<files, addOrder, adds, clock, nvOffline, connected, bo, devices>>

NextCrash == Next \/ ReplayAllEntryPowerLoss

\* the queue and its replay on a device that may lose power inside replay_all
SpecCrash == Init /\ [][NextCrash]_vars

NextRemoval == Next \/ ReplayAllEntryRecordGone

\* the queue and its replay with an on_failed_event callback that removes records
SpecRemoval == Init /\ [][NextRemoval]_vars

NextPower == Next \/ AddInterrupted

\* the queue and its replay on a device that may lose power inside add()
SpecPower == Init /\ [][NextPower]_vars

\* the directory after k calls of add(request) within second now
FilledDir(k, now, request) ==
    [n \in {<<now, i>> : i \in 0..(k - 1)} |->
        json_dump([type |-> request.type, payload |-> serialize_to_json(request)[1]])]

\* a queue that took diaper changes all through one second and is full or nearly so
InitFull ==
    /\ files \in {FilledDir(k, 0, PostChangeAPIRequest(1, TRUE, FALSE)[1]) :
                      k \in (SuffixLimit - NearFull)..SuffixLimit}
    /\ addOrder = <<>>
    /\ adds = 0
    /\ clock = 0
    /\ pc = "idle"
    /\ drain = NoDrain
    /\ ncalls = 0
    /\ last = NoEntry
    /\ nvOffline = TRUE
    /\ connected = FALSE
    /\ bo = NoBackOnline
    /\ devices = [rtc |-> TRUE, sdcard |-> TRUE]
    /\ flow = NoFlow

\* OfflineEventQueue.add(request) when build_json_filename raises: nothing is opened
AddQueueFull ==
    /\ pc = "idle"
    /\ adds < MaxAdds
    /\ \E request \in AddRequests :
           /\ serialize_to_json(request) # Raise
           /\ build_json_filename(files, clock) = Raise
           /\ flow' = [NoFlow EXCEPT !.op = "add", !.was_offline = nvOffline, !.offline = nvOffline,
                                     !.request = Some(request), !.raised = TRUE, !.before = files]
    /\ adds' = adds + 1
    /\ UNCHANGED <<files, addOrder, clock, pc, drain, ncalls, last, nvOffline, connected, bo, devices>>

NextFull == Add \/ AddQueueFull

\* add() on a queue close to the thousand names of one second
SpecFull == InitFull /\ [][NextFull]_vars

NextMode ==
    Startup \/ Shutdown \/ SettingsOffline \/ SettingsBackOnlineStart \/ BackOnlineEntry
       \/ MenuOperation \/ StartTimer

\* the main flow: startup, the Offline setting, the menus and their timers
SpecMode == InitMode /\ [][NextMode]_vars

\* the main menu is up, in either mode
InitTimer ==
    /\ files = EmptyDir
    /\ addOrder = <<>>
    /\ adds = 0
    /\ clock = 0
    /\ pc = "idle"
    /\ drain = NoDrain
    /\ ncalls = 0
    /\ last = NoEntry
    /\ nvOffline \in BOOLEAN
    /\ connected = ~ nvOffline
    /\ bo = NoBackOnline
    /\ devices = [rtc |-> TRUE, sdcard |-> TRUE]
    /\ flow = NoFlow

NextTimer == Tick \/ StartTimer \/ CancelTimer \/ TimerPayload

\* the timers of the main flow: started, cancelled, turned into payloads
SpecTimer == InitTimer /\ [][NextTimer]_vars

NextFlow == OfflineAdd \/ BackOnlineStart \/ BackOnlineEntry

\* the menus and the Offline setting of the main flow
SpecFlow == Init /\ [][NextFlow]_vars

(***************************************************************************)
(* Properties                                                               *)
(***************************************************************************)
\* the ordinal of the add() call that created the file (0: there before any add())
Born(name) ==
    IF \E i \in DOMAIN addOrder : addOrder[i] = name
    THEN CHOOSE i \in DOMAIN addOrder : addOrder[i] = name /\ \A j \in DOMAIN addOrder : addOrder[j] = name => j <= i
    ELSE 0

InInsertionOrder(names) == \A i, j \in DOMAIN names : i < j => Born(names[i]) < Born(names[j])

SeqRange(q) == {q[i] : i \in DOMAIN q}
Remaining(k) == SubSeq(drain.files, k, Len(drain.files))
RestrictDir(dir, names) == [n \in names |-> dir[n]]

\* the entry the last turn of the loop processed: its payload as stored, as sent
Processed == last.name # <<>>
StoredPayload == json_load(drain.before[last.name])[1].payload
SentPayload == last.out.request[1].payload
SubmissionFailed == Processed /\ last.out.invoked /\ ~ last.out.ok

KnownKinds ==
    {"PostFeedingAPIRequest", "PostChangeAPIRequest", "PostPumpingAPIRequest",
     "PostTummyTimeAPIRequest", "PostSleepAPIRequest"}
UnknownKind == Processed /\ last.out.loaded /\ json_load(drain.before[last.name])[1].type \notin KnownKinds

\* C1: a drain submits the entries in exactly the order in which they were added; when
\* every submission of a deleting drain succeeds, the transport saw one call per entry
\* and the queue is empty.
C1_ReplayInInsertionOrder ==
    /\ InInsertionOrder(SubSeq(drain.files, 1, Len(drain.progress)))
    /\ (drain.status = "returned" /\ drain.delete_on_success /\ drain.nok = Len(drain.files))
          => (files = EmptyDir /\ ncalls = Len(drain.files))

\* C2 as stated: without an on_failed_event callback, a failed submission of entry k
\* raises at once, the entries before k are deleted, nothing after k is submitted, and
\* the queue holds exactly entry k and the later entries in their order.
C2_Halted ==
    /\ drain.status = "raised"
    /\ pc = "idle"
    /\ last.name = drain.files[drain.pos]
    /\ ncalls = drain.pos
    /\ drain.nok = drain.pos - 1
    /\ files = RestrictDir(drain.before, SeqRange(Remaining(drain.pos)))
    /\ get_json_files(files) = Remaining(drain.pos)

C2_Original == (SubmissionFailed /\ ~ drain.has_callback) => C2_Halted

\* C2 amended: the same, for a drain with delete_on_success true.
C2_HaltOnFirstFailure ==
    (SubmissionFailed /\ ~ drain.has_callback /\ drain.delete_on_success) => C2_Halted

C2_Witness ==
    /\ SubmissionFailed /\ ~ drain.has_callback /\ drain.delete_on_success
    /\ drain.pos = 2 /\ Len(drain.files) = 3

\* C3: with an on_failed_event callback, a failed submission calls the callback once
\* with the entry's request; the entry is deleted if it returns true and stays if it
\* returns false, and in both cases the drain goes on to the next entry.
C3_OnFailureContract ==
    (SubmissionFailed /\ drain.has_callback) =>
        /\ last.out.callback_args = <<last.out.request>>
        /\ last.out.callback_result => last.name \notin DOMAIN files
        /\ ~ last.out.callback_result =>
              (last.name \in DOMAIN files /\ files[last.name] = drain.before[last.name])
        /\ drain.status # "raised"
        /\ drain.pos >= 2 /\ drain.files[drain.pos - 1] = last.name
        /\ IF drain.pos <= Len(drain.files)
           THEN drain.status = "running" /\ pc = "replay"
           ELSE drain.status = "returned" /\ pc = "idle"

C3_Witness ==
    /\ SubmissionFailed /\ drain.has_callback /\ drain.delete_on_success
    /\ ~ last.out.callback_result /\ drain.status = "running"

\* C4: the key of each added entry is greater than the key of every entry added before
\* it, so the listing returns the current entries in the order they were added.
C4_KeysIncrease ==
    /\ \A i, j \in DOMAIN addOrder : i < j => StrLess(FileName(addOrder[i]), FileName(addOrder[j]))
    /\ InInsertionOrder(get_json_files(files))

\* C5: every record the listing shows is a complete, parseable record, also after a
\* power loss inside add().
C5_AtomicAdd == \A n \in DOMAIN files : json_load(files[n]) # Raise

\* C6: a stored timer id that is not among the live timer ids of the drain is removed
\* and the request is submitted without a timer; no submitted request carries a timer
\* id outside the live set.
C6_StaleTimerDropped ==
    (Processed /\ last.out.request # None) =>
        /\ ("timer" \in DOMAIN StoredPayload /\ StoredPayload["timer"] \notin drain.existing)
              => (last.out.invoked /\ "timer" \notin DOMAIN SentPayload)
        /\ "timer" \in DOMAIN SentPayload => SentPayload["timer"] \in drain.existing

C6_Witness ==
    /\ Processed /\ last.out.invoked
    /\ "timer" \in DOMAIN StoredPayload /\ StoredPayload["timer"] \notin drain.existing

\* C7: a stored record with a live timer id and start/end values is submitted with the
\* timer id and without start/end; no submitted request carries both.
C7_LiveTimerPrecedence ==
    (Processed /\ last.out.invoked) =>
        /\ ~ ("timer" \in DOMAIN SentPayload /\ {"start", "end"} \cap DOMAIN SentPayload # {})
        /\ ({"timer", "start", "end"} \subseteq DOMAIN StoredPayload
               /\ StoredPayload["timer"] \in drain.existing)
              => ("timer" \in DOMAIN SentPayload /\ SentPayload["timer"] = StoredPayload["timer"])

C7_Witness ==
    /\ Processed /\ last.out.invoked
    /\ {"timer", "start", "end"} \subseteq DOMAIN StoredPayload
    /\ StoredPayload["timer"] \in drain.existing

\* C8: when the live timer query of a drain of a non-empty queue fails, the drain
\* raises, on_failed_event is not called, nothing is submitted and the queue is as it was.
C8_TimerQueryFailure ==
    (drain.status # "none" /\ drain.files # <<>> /\ ~ drain.timers_ok) =>
        /\ drain.status = "raised" /\ pc = "idle"
        /\ ncalls = 0
        /\ last = NoEntry
        /\ drain.progress = <<>>
        /\ files = drain.before

C8_Witness ==
    /\ drain.status = "raised" /\ drain.files # <<>> /\ ~ drain.timers_ok
    /\ drain.has_callback /\ Len(drain.files) >= 2

\* C9 as stated: a record of an unknown type makes the drain raise, with or without an
\* on_failed_event callback; it is not skipped and not deleted.
C9_Original ==
    UnknownKind => (~ last.out.invoked /\ drain.status = "raised" /\ last.name \in DOMAIN files)

\* C9 amended: a record of an unknown type is never submitted; without a callback the
\* drain raises and the record stays; with a callback the callback is called with no
\* request, the record is deleted exactly if it returns true, and the drain goes on.
C9_UnknownKind ==
    UnknownKind =>
        /\ ~ last.out.invoked
        /\ IF drain.has_callback
           THEN /\ last.out.callback_args = <<None>>
                /\ drain.status # "raised"
                /\ last.name \in DOMAIN files <=> ~ last.out.callback_result
           ELSE /\ drain.status = "raised"
                /\ last.out.callback_args = <<>>
                /\ last.name \in DOMAIN files

C9_Witness ==
    /\ UnknownKind /\ drain.has_callback /\ last.out.callback_result
    /\ last.name \notin DOMAIN files /\ drain.status = "running"

\* C10: in back_online the Offline flag is cleared, a reconnection is attempted, and the
\* queue is drained, once, exactly if the reconnection succeeded; no entry is submitted
\* more than once.
C10_DrainIffReconnected ==
    bo.status # "none" =>
        /\ bo.status \in {"running", "returned"} => ~ nvOffline
        /\ bo.connect_ok <=> bo.drains = 1
        /\ bo.submits <= Len(bo.files)

\* C11: when the reconnection attempt of back_online fails, then at the end of
\* back_online the Offline flag is set again, the error has left back_online, and no
\* queue entry has been submitted or removed.
C11_FailedReconnectReverts ==
    (bo.status \in {"returned", "raised"} /\ ~ bo.connect_ok) =>
        /\ nvOffline
        /\ bo.status = "raised"
        /\ bo.submits = 0
        /\ files = bo.before

\* the last menu operation and the request it built
MenuDone == flow.op = "menu"
MenuRequest == flow.request[1]

\* C12: a request built by a menu while the Offline flag is clear is invoked at once and
\* not added to the queue; one built while the flag is set is added to the queue and no
\* remote request is issued.
C12_ModeGatesSubmission ==
    MenuDone =>
        IF flow.was_offline
        THEN /\ flow.enqueued /\ ~ flow.invoked
             /\ flow.filename[1] \in DOMAIN files
             /\ flow.filename[1] \notin DOMAIN flow.before
             /\ unlink(files, flow.filename[1]) = flow.before
        ELSE /\ flow.invoked /\ ~ flow.enqueued
             /\ files = flow.before

C12_Witness ==
    /\ MenuDone /\ ~ flow.was_offline /\ flow.invoked
    /\ MenuRequest.type = "PostSleepAPIRequest"
    /\ flow.before # EmptyDir

\* a start of the firmware and what it found
StartupDone == flow.op = "startup"
OfflineCapable == devices.rtc /\ devices.sdcard

\* C13: whenever the firmware runs with the Offline flag set, an RTC and an SD card are
\* present; a start with the flag set and either of them missing ends with an error.
C13_OfflineNeedsClockAndStorage ==
    /\ (pc # "off" /\ nvOffline) => OfflineCapable
    /\ (StartupDone /\ flow.was_offline /\ ~ OfflineCapable) => (flow.raised /\ pc = "off")

\* C14: when auto_connect runs with the Offline flag clear and the connection fails, the
\* device is in Offline mode afterwards and auto_connect has not raised if RTC and SD
\* card are present; otherwise auto_connect raises and the device is not in Offline mode.
C14_AutomaticFallback ==
    (StartupDone /\ ~ flow.offline /\ ~ flow.connect_ok) =>
        IF OfflineCapable
        THEN ~ flow.ac_raised /\ flow.went_offline /\ ~ connected /\ nvOffline
        ELSE flow.ac_raised /\ ~ flow.went_offline /\ ~ nvOffline

\* C15: after every transition into Offline (the Offline setting, the fallback of
\* auto_connect at startup or in back_online) the connection is closed and the Offline
\* flag is set.
C15_OfflinePersisted ==
    /\ (flow.op \in {"startup", "offline"} /\ flow.went_offline) => (~ connected /\ nvOffline)
    /\ (bo.status \in {"returned", "raised"} /\ bo.went_offline) => (~ connected /\ nvOffline)

\* the descriptor of a request: its kind, its fields, its timer reference
TimerRef(timer) ==
    IF timer = None THEN None
    ELSE IF timer[1].timer_id # None THEN <<"Remote", timer[1].timer_id[1]>>
    ELSE <<"Local", timer[1].started_at, timer[1].ended_at>>
Fields(request) == DictDel(request.payload, {"timer", "start", "end"})
StoredItem == json_load(files[flow.filename[1]])
Restored == init_api_request(StoredItem[1].type, StoredItem[1].payload)

\* C16: the request read back from the record add() wrote has the kind, the fields, the
\* timer reference and the payload of the request that was added.
C16_SerializationRoundTrip ==
    (MenuDone /\ flow.enqueued) =>
        /\ StoredItem # Raise
        /\ Restored # Raise
        /\ Restored[1].type = MenuRequest.type
        /\ Restored[1].uri = MenuRequest.uri
        /\ Fields(Restored[1]) = Fields(MenuRequest)
        /\ TimerRef(Restored[1].timer) = TimerRef(MenuRequest.timer)
        /\ Restored[1].payload = MenuRequest.payload

C16_Witness ==
    /\ MenuDone /\ flow.enqueued
    /\ MenuRequest.type = "PostFeedingAPIRequest"
    /\ TimerRef(Restored[1].timer) = <<"Local", Some(0), Some(0)>>

\* the last timer started online
RemoteTimerStarted == flow.op = "timer" /\ ~ flow.was_offline
ResultIds == {flow.results[i].id : i \in DOMAIN flow.results}

\* C17: an online start_or_resume asks for the timers named "babypod-" + name; if there
\* are any, the timer takes the id and the start of the one with the greatest id and
\* none is created; if there is none, one timer is created and its id taken.
C17_StartOrResume ==
    RemoteTimerStarted =>
        /\ flow.calls[1] = [request |-> "GetTimerAPIRequest",
                            name |-> "babypod-" \o flow.timer[1].name]
        /\ IF flow.results # <<>>
           THEN /\ Len(flow.calls) = 1
                /\ flow.timer[1].timer_id[1] \in ResultIds
                /\ \A id \in ResultIds : id <= flow.timer[1].timer_id[1]
                /\ \E i \in DOMAIN flow.results :
                      /\ flow.results[i].id = flow.timer[1].timer_id[1]
                      /\ flow.timer[1].started_at = Some(fromisoformat(flow.results[i].start))
           ELSE /\ Len(flow.calls) = 2
                /\ flow.calls[2] = [request |-> "CreateTimerAPIRequest",
                                    name |-> "babypod-" \o flow.timer[1].name]
                /\ flow.timer[1].timer_id = flow.created

C17_Witness ==
    /\ RemoteTimerStarted
    /\ ResultIds = {3, 9} /\ flow.results[1].id = 3
    /\ flow.timer[1].timer_id = Some(9)
    /\ flow.timer[1].name = "feeding"

\* C18: within one second and with no entry removed, add() gives the suffixes 0 to 999
\* in turn; once a thousand records exist it raises, writes nothing and leaves the
\* records as they are.
C18_CollisionExhaustion ==
    LET n == Cardinality(DOMAIN files)
    IN /\ n <= SuffixLimit
       /\ DOMAIN files = {<<clock, i>> : i \in 0..(n - 1)}
       /\ \A i \in DOMAIN addOrder : addOrder[i] = <<clock, n - Len(addOrder) + i - 1>>
       /\ adds > Len(addOrder) => (n = SuffixLimit /\ flow.op = "add" /\ flow.raised)
       /\ (flow.op = "add" /\ flow.raised) => (n = SuffixLimit /\ files = flow.before)

C18_Witness ==
    /\ flow.op = "add" /\ flow.raised
    /\ Len(addOrder) = 1 /\ addOrder[1] = <<clock, SuffixLimit - 1>>
    /\ adds = 2

\* C19: the deletion step of a drain does not fail when the record it is to delete is
\* already gone, and leaves the queue as it is.
C19_IdempotentRemoval ==
    (flow.op = "unlink" /\ flow.filename[1] \notin DOMAIN flow.before) => ~ flow.raised

\* C20: a drain of an empty queue returns with no submission, no progress callback and
\* no failure callback, and the queue is still empty.
C20_EmptyDrain ==
    (drain.status # "none" /\ drain.before = EmptyDir) =>
        /\ drain.status = "returned" /\ pc = "idle"
        /\ drain.files = <<>>
        /\ ncalls = 0
        /\ drain.progress = <<>>
        /\ last = NoEntry
        /\ files = EmptyDir

C20_Witness ==
    /\ drain.status = "returned" /\ drain.before = EmptyDir
    /\ drain.has_callback /\ drain.delete_on_success
    /\ adds >= 1

\* the adds made so far each happened at a later second than the one before
IncreasingTimes == \A i, j \in DOMAIN addOrder : i < j => addOrder[i][1] < addOrder[j][1]
Listed == flow.op = "list" /\ flow.before = files

\* C21: when every add happened at a later second than the one before and nothing was
\* removed, get_json_files returns the entries in the order added, in whatever order
\* os.listdir reports the names.
C21_ListingIgnoresStorageOrder ==
    (Listed /\ IncreasingTimes) =>
        /\ flow.results = addOrder
        /\ flow.results = get_json_files(files)

C21_Witness ==
    /\ Listed /\ IncreasingTimes
    /\ Len(addOrder) = 2 /\ addOrder[1][1] = 9
    /\ flow.calls # addOrder

\* C22: during a drain of n entries the progress callback is called once per entry,
\* before the entry is read, with (i, n) where i is the zero-based position of the
\* entry: the indices passed over one drain are 0, 1, ..., n-1 in order.
C22_ProgressIndices ==
    \A k \in DOMAIN drain.progress : drain.progress[k] = <<k - 1, Len(drain.files)>>

\* C23: in a drain that runs with an on_failed_event callback no failure of one
\* entry (reading or parsing its record, deserializing, reconciling, submitting it)
\* leaves replay_all as an exception.
C23_FailuresGoThroughCallback ==
    (drain.has_callback /\ drain.timers_ok) => drain.status # "raised"

\* C24: when the clock resynchronization of refresh_rtc fails during device startup,
\* the force-resync flag is persisted and the startup continues: the failure does not
\* leave device_startup as an exception.
C24_ResyncFailureNotFatal ==
    (StartupDone /\ flow.sync_failed) => (flow.force_rtc /\ ~ flow.raised)

PayloadTaken == flow.op = "payload"
NeverStarted(timer) == timer.timer_id = None /\ timer.started_at = None

\* C25: as_payload on a timer with neither an id nor a start time raises and returns
\* nothing; on a timer with an id it returns exactly the timer id; on a local timer
\* with a start time it returns exactly the start and the end timestamps.
C25_TimerNeverStarted ==
    PayloadTaken =>
        LET timer == flow.timer[1]
        IN /\ NeverStarted(timer) => flow.results = Raise
           /\ timer.timer_id # None => flow.results = Return([timer |-> timer.timer_id[1]])
           /\ (timer.timer_id = None /\ timer.started_at # None) =>
                 flow.results =
                     Return([start |-> isoformat(timer.started_at[1]),
                             end |-> isoformat(IF timer.ended_at # None THEN timer.ended_at[1]
                                               ELSE flow.rtc_now[1])])

C25_Witness ==
    /\ PayloadTaken
    /\ NeverStarted(flow.timer[1])
    /\ flow.timer[1].offline
    /\ flow.results = Raise

TimerCancelled == flow.op = "cancel"
LocalTimerStarted == flow.op = "timer" /\ flow.timer[1].offline

\* C27: a timer in offline mode invokes no request in start_or_resume or in cancel,
\* its start time is the reading of the clock when it is started, and cancel changes
\* nothing of the timer; a timer in online mode invokes exactly one
\* DeleteTimerAPIRequest for its id on cancel.
C27_LocalSessionsSilent ==
    /\ LocalTimerStarted =>
          /\ flow.calls = <<>>
          /\ flow.timer[1].started_at = flow.rtc_now
          /\ flow.rtc_now # None
          /\ flow.timer[1].timer_id = None
    /\ TimerCancelled =>
          /\ flow.timer = flow.timer_before
          /\ flow.calls = IF flow.timer[1].offline THEN <<>>
                          ELSE << [request |-> "DeleteTimerAPIRequest", id |-> flow.timer[1].timer_id] >>

C27_Witness ==
    /\ TimerCancelled
    /\ flow.timer[1].offline
    /\ flow.timer[1].started_at = Some(MaxClock)
    /\ flow.calls = <<>>

LocalReferenceStored ==
    /\ Processed /\ last.out.invoked
    /\ "timer" \notin DOMAIN StoredPayload
    /\ {"start", "end"} \subseteq DOMAIN StoredPayload

\* C26: a stored record whose timer reference is start/end timestamps without a timer
\* id is submitted with exactly the stored start and end values and without a timer
\* id, whatever the live timer ids of the drain are.
C26_LocalReferenceUntouched ==
    LocalReferenceStored =>
        /\ "timer" \notin DOMAIN SentPayload
        /\ {"start", "end"} \subseteq DOMAIN SentPayload
        /\ SentPayload["start"] = StoredPayload["start"]
        /\ SentPayload["end"] = StoredPayload["end"]

C26_Witness ==
    /\ LocalReferenceStored
    /\ last.out.ok
    /\ StoredPayload["start"] # StoredPayload["end"]
    /\ drain.existing = {7}

\* C28: in a drain an entry whose submission succeeds is removed when delete_on_success
\* is true and stays when it is false; a drain with delete_on_success false in which
\* every submission succeeds leaves the directory exactly as it was.
C28_DeleteOnSuccess ==
    /\ (Processed /\ last.out.ok) => ((last.name \in DOMAIN files) <=> ~ drain.delete_on_success)
    /\ (drain.status = "returned" /\ ~ drain.delete_on_success /\ drain.nok = Len(drain.files))
          => files = drain.before

C28_Witness ==
    /\ drain.status = "returned" /\ ~ drain.delete_on_success
    /\ Len(drain.files) = 2 /\ drain.nok = 2
    /\ files = drain.before

\* C29: a record leaves the directory only in the turn of the drain that processed it,
\* and only when its submission succeeded with delete_on_success true or
\* on_failed_event returned true for it; every other record stays, unchanged.
C29_NoSilentLoss ==
    [][/\ \A n \in DOMAIN files \ DOMAIN files' :
             /\ last'.name = n
             /\ \/ last'.out.ok /\ drain.delete_on_success
                \/ last'.out.failed /\ last'.out.callback_result
       /\ \A n \in DOMAIN files \cap DOMAIN files' : files'[n] = files[n]]_vars

C29_Witness ==
    /\ Processed /\ drain.has_callback /\ drain.delete_on_success
    /\ last.out.failed /\ ~ last.out.callback_result
    /\ last.name \in DOMAIN files
    /\ DOMAIN files # DOMAIN drain.before

\* C30: with delete_on_success true no record is submitted successfully more than
\* once, over drains that halt and are retried and over a power loss inside a drain:
\* a record whose submission had succeeded when the power was lost is not submitted
\* successfully again.
C30_AtMostOnce ==
    (flow.op = "delivered" /\ flow.results = addOrder /\ Processed /\ last.name = flow.filename[1])
        => ~ last.out.ok

\* C31: every add that succeeds creates exactly one new record, under a name no record
\* of the directory has, and leaves the name and the content of every record that was
\* there unchanged: the number of records grows by exactly one.
C31_AddNeverOverwrites ==
    [][adds' = adds + 1 =>
          /\ \E k \in DOMAIN files' \ DOMAIN files :
                /\ DOMAIN files' = DOMAIN files \cup {k}
                /\ json_load(files'[k]) # Raise
          /\ \A n \in DOMAIN files : files'[n] = files[n]
          /\ Cardinality(DOMAIN files') = Cardinality(DOMAIN files) + 1]_vars

C31_Witness ==
    /\ adds = 2 /\ drain = NoDrain
    /\ addOrder = << <<0, 1>>, <<0, 0>> >>
    /\ {<<0, 0>>, <<0, 1>>} \subseteq DOMAIN files

ReplayFailedBackOnline == bo.status = "raised" /\ bo.files # <<>>

\* C32: when the replay of a queued entry fails in back_online, the Offline flag is set
\* again before the error leaves back_online, the failed entry and every later one are
\* still in the queue, and a request logged afterwards is added to the queue behind
\* them.
C32_ReplayFailureReturnsOffline ==
    [][ReplayFailedBackOnline =>
          /\ nvOffline
          /\ \A k \in bo.pos..Len(bo.files) :
                /\ bo.files[k] \in DOMAIN files
                /\ files[bo.files[k]] = bo.before[bo.files[k]]
          /\ adds' = adds + 1 =>
                \A new \in DOMAIN files' \ DOMAIN files :
                    \A n \in DOMAIN files : StrLess(FileName(n), FileName(new))]_vars

====
